---- MODULE Spec2Model ----
(***************************************************************************)
(* Model of src/app.py: a Flask service that turns HTML into PDF.          *)
(*                                                                         *)
(* Text is a sequence of Unicode code points and a byte string a sequence  *)
(* of integers 0..255, so that substring search, replacement and UTF-8     *)
(* decoding are computed the way Python computes them.  A Python value is  *)
(* a record [kind, s]: kind "str" (s its code points), "bytes", "none"     *)
(* (None), "num" (a non-zero number) or "missing" (no such key / field).   *)
(***************************************************************************)
EXTENDS Integers, Sequences, FiniteSets, TLC

VARIABLES slots

vars == <<slots>>

\* ------------------------------------------------------------------ bounds
\* Number of token concatenations that make up a generated text or body.
MaxTokens == 2
\* Number of requests the server handles at the same time in SpecConc.
NumWorkers == 2

\* ------------------------------------------------------------ Python values
Str(s) == [kind |-> "str", s |-> s]
Bytes(b) == [kind |-> "bytes", s |-> b]
None == [kind |-> "none", s |-> <<>>]
Num == [kind |-> "num", s |-> <<>>]
Missing == [kind |-> "missing", s |-> <<>>]

\* Python truth value: None and "" are false, a non-empty str and a non-zero
\* number are true.
Truthy(v) == (v.kind = "str" /\ v.s # <<>>) \/ v.kind = "num"

\* dict.get(key, default): the default only replaces a missing key.
DictGet(v, default) == IF v.kind = "missing" THEN default ELSE v

\* ------------------------------------------------------------ text literals
HeadTag == <<60,104,101,97,100,62>>  \* <head>
StyleOpen == <<60,115,116,121,108,101,62,64,112,97,103,101,32,123,32>>  \* "<style>@page { "
StyleClose == <<59,32,109,97,114,103,105,110,58,32,48,59,32,125,60,47,115,116,121,108,101,62>>  \* "; margin: 0; }</style>"
RuleSep == <<59,32>>  \* "; "
SizePrefix == <<115,105,122,101,58,32>>  \* "size: "
WrapOpen == <<60,104,116,109,108,62,60,104,101,97,100,62>>  \* <html><head>
WrapMid == <<60,47,104,101,97,100,62,60,98,111,100,121,62>>  \* </head><body>
WrapClose == <<60,47,98,111,100,121,62,60,47,104,116,109,108,62>>  \* </body></html>
DefaultPageSize == <<65,52>>  \* A4
DefaultOrientation == <<112,111,114,116,114,97,105,116>>  \* portrait
DefaultFilename == <<100,111,99,117,109,101,110,116,111,46,112,100,102>>  \* documento.pdf
TextHtml == <<116,101,120,116,47,104,116,109,108>>  \* text/html
ApplicationJson == <<97,112,112,108,105,99,97,116,105,111,110,47,106,115,111,110>>  \* application/json

\* ------------------------------------------------------- string operations
\* Python's `pat in s` for str.
Contains(pat, s) ==
    \E i \in 1..(Len(s) - Len(pat) + 1) : SubSeq(s, i, i + Len(pat) - 1) = pat

\* Python's s.replace(old, new) for a non-empty old: every non-overlapping
\* occurrence, scanning left to right.
RECURSIVE StrReplace(_, _, _)
StrReplace(s, old, new) ==
    IF Len(s) < Len(old) THEN s
    ELSE IF SubSeq(s, 1, Len(old)) = old
         THEN new \o StrReplace(SubSeq(s, Len(old) + 1, Len(s)), old, new)
         ELSE <<Head(s)>> \o StrReplace(Tail(s), old, new)

\* Python's sep.join(parts).
RECURSIVE StrJoin(_, _)
StrJoin(sep, parts) ==
    IF parts = <<>> THEN <<>>
    ELSE IF Len(parts) = 1 THEN parts[1]
    ELSE parts[1] \o sep \o StrJoin(sep, Tail(parts))

IsCont(b) == b >= 128 /\ b <= 191

\* bytes.decode('utf-8'), strict: [ok, s].  One- to four-byte sequences with
\* the decoder's checks for overlong forms, surrogates and the U+10FFFF limit.
RECURSIVE Utf8Decode(_)
Utf8Decode(b) ==
    IF b = <<>> THEN [ok |-> TRUE, s |-> <<>>]
    ELSE LET b1 == b[1]
             n == IF b1 < 128 THEN 1
                  ELSE IF b1 >= 194 /\ b1 <= 223 THEN 2
                  ELSE IF b1 >= 224 /\ b1 <= 239 THEN 3
                  ELSE IF b1 >= 240 /\ b1 <= 244 THEN 4
                  ELSE 0
             wellFormed ==
                 /\ n > 0
                 /\ Len(b) >= n
                 /\ \A i \in 2..n : IsCont(b[i])
                 /\ (b1 = 224 => b[2] >= 160)
                 /\ (b1 = 237 => b[2] <= 159)
                 /\ (b1 = 240 => b[2] >= 144)
                 /\ (b1 = 244 => b[2] <= 143)
             cp == IF n = 1 THEN b1
                   ELSE IF n = 2 THEN (b1 - 192) * 64 + (b[2] - 128)
                   ELSE IF n = 3 THEN (b1 - 224) * 4096 + (b[2] - 128) * 64 + (b[3] - 128)
                   ELSE (b1 - 240) * 262144 + (b[2] - 128) * 4096
                        + (b[3] - 128) * 64 + (b[4] - 128)
         IN  IF ~wellFormed THEN [ok |-> FALSE, s |-> <<>>]
             ELSE LET rest == Utf8Decode(SubSeq(b, n + 1, Len(b)))
                  IN  IF rest.ok THEN [ok |-> TRUE, s |-> <<cp>> \o rest.s]
                      ELSE rest

\* ---------------------------------------------------------------- requests
\* A parsed JSON body.  kind is "malformed" (not JSON), "null", "list" (a
\* list without the element "html"), "listhtml" (a list holding "html") or
\* "object"; an object's keys are html, filename, page_size, orientation,
\* and `extra` says that it has some other key.
JsonBody(kind, html, filename, page_size, orientation, extra) ==
    [kind |-> kind, html |-> html, filename |-> filename,
     page_size |-> page_size, orientation |-> orientation, extra |-> extra]

JsonScalar(kind) == JsonBody(kind, Missing, Missing, Missing, Missing, FALSE)

\* A request: the route, the Content-Type header (None when there is none),
\* the raw body, the body as JSON, the uploaded file `file` and the form
\* field `html` (Missing when there is none).
Request(route, ctype, data, json, file, form) ==
    [route |-> route, ctype |-> ctype, data |-> data, json |-> json,
     file |-> file, form |-> form]

NoExc == ""

\* request.get_json(): a malformed body raises BadRequest, the JSON value
\* null is None.
GetJson(json) ==
    IF json.kind = "malformed" THEN [exc |-> "BadRequest", data |-> json]
    ELSE [exc |-> NoExc, data |-> json]

\* Python's `not data` for a parsed JSON value.
JsonFalsy(json) ==
    \/ json.kind = "null"
    \/ /\ json.kind = "object"
       /\ json.html.kind = "missing" /\ json.filename.kind = "missing"
       /\ json.page_size.kind = "missing" /\ json.orientation.kind = "missing"
       /\ ~json.extra

\* ---------------------------------------------------------------- responses
\* A response: the HTTP status, the keys of its JSON body (none for a PDF)
\* with the values of `error`, `details` and `aceita`, and for a PDF the
\* attachment's name and the HTML it was rendered from.
Response(status, keys, error, details, aceita, filename, pdfOf) ==
    [status |-> status, keys |-> keys, error |-> error, details |-> details,
     aceita |-> aceita, filename |-> filename, pdfOf |-> pdfOf]

NoResponse == Response(0, {}, "", "", <<>>, Missing, Missing)

\* home(): the service description, 'status': 'online'.
HomeResponse == Response(200, {"status:online", "service", "version", "endpoints"},
                         "", "", <<>>, Missing, Missing)

\* health(): jsonify({'status': 'healthy'}), 200
HealthResponse == Response(200, {"status:healthy"}, "", "", <<>>, Missing, Missing)

\* The accepted encodings listed by the 400 answer of /convert.
Aceita ==
    << "Content-Type: text/html (HTML no body)",
       "Content-Type: application/json ({\"html\": \"...\"})",
       "multipart/form-data (file ou html)" >>

NoHtmlResponse ==
    Response(400, {"error", "aceita"}, "Nenhum HTML fornecido", "", Aceita,
             Missing, Missing)

\* The except block of convert_html_to_pdf.
ConvertErrorResponse(msg) ==
    Response(500, {"error", "details"}, "Erro ao converter PDF", msg, <<>>,
             Missing, Missing)

HtmlRequiredResponse ==
    Response(400, {"error"}, "Campo \"html\" é obrigatório", "", <<>>,
             Missing, Missing)

\* The except block of convert_with_params.
ParamsErrorResponse(msg) ==
    Response(500, {"error"}, msg, "", <<>>, Missing, Missing)

\* send_file(pdf_buffer, mimetype='application/pdf', as_attachment=True,
\* download_name=...): the PDF of the rendered HTML under the given name.
PdfResponse(filename, html) ==
    Response(200, {}, "", "", <<>>, filename, html)

\* ------------------------------------------------------------ Input Resolver
HasType(ctype, t) == Truthy(ctype) /\ Contains(t, ctype.s)

Resolved(exc, html, source) == [exc |-> exc, html |-> html, source |-> source]

\* bytes.decode('utf-8') of a request part.
DecodePart(part, source) ==
    LET d == Utf8Decode(part.s)
    IN  IF d.ok THEN Resolved(NoExc, Str(d.s), source)
        ELSE Resolved("UnicodeDecodeError", None, source)

\* data = request.get_json(); html_content = data.get('html')
ResolveJson(json) ==
    LET g == GetJson(json)
    IN  IF g.exc # NoExc THEN Resolved(g.exc, None, "json")
        ELSE IF g.data.kind # "object" THEN Resolved("AttributeError", None, "json")
        ELSE Resolved(NoExc, DictGet(g.data.html, None), "json")

\* The chain with the JSON test ahead of the text/html test.
ResolveInputJsonFirst(req) ==
    IF HasType(req.ctype, ApplicationJson) THEN ResolveJson(req.json)
    ELSE IF HasType(req.ctype, TextHtml) THEN DecodePart(req.data, "text/html")
    ELSE IF req.file.kind # "missing" THEN DecodePart(req.file, "file")
    ELSE IF req.form.kind # "missing" THEN Resolved(NoExc, req.form, "form-data")
    ELSE Resolved(NoExc, None, "none")

\* The if/elif chain of convert_html_to_pdf: which part of the request gives
\* html_content, and the source the handler logs.
ResolveInput(req) ==
    IF HasType(req.ctype, TextHtml) THEN DecodePart(req.data, "text/html")
    ELSE IF HasType(req.ctype, ApplicationJson) THEN ResolveJson(req.json)
    ELSE IF req.file.kind # "missing" THEN DecodePart(req.file, "file")
    ELSE IF req.form.kind # "missing" THEN Resolved(NoExc, req.form, "form-data")
    ELSE Resolved(NoExc, None, "none")

\* The test `html_content is None` in place of `not html_content`.
NoHtmlOnlyNone(html) == html.kind = "none"

\* `if not html_content`
NoHtml(html) == ~Truthy(html)

\* len(html_content) in the log line before rendering.
LenRaises(html) == html.kind \notin {"str", "bytes"}

\* ------------------------------------------------------- /convert-with-params
Validated(exc, bad, html, filename, page_size, orientation) ==
    [exc |-> exc, bad |-> bad, html |-> html, filename |-> filename,
     page_size |-> page_size, orientation |-> orientation]

\* `if not data or 'html' not in data`
HtmlFieldAbsent(json) ==
    \/ JsonFalsy(json)
    \/ json.kind = "list"
    \/ json.kind = "object" /\ json.html.kind = "missing"

\* data = request.get_json() up to orientation = data.get(...).
ValidateParams(json) ==
    LET g == GetJson(json)
    IN  IF g.exc # NoExc
        THEN Validated(g.exc, FALSE, None, None, None, None)
        ELSE IF HtmlFieldAbsent(g.data)
        THEN Validated(NoExc, TRUE, None, None, None, None)
        ELSE IF g.data.kind # "object"
        THEN Validated("TypeError", FALSE, None, None, None, None)
        ELSE Validated(NoExc, FALSE, g.data.html,
                       DictGet(g.data.filename, Str(DefaultFilename)),
                       DictGet(g.data.page_size, Str(DefaultPageSize)),
                       DictGet(g.data.orientation, Str(DefaultOrientation)))

\* The two rules in the other order.
CssRulesOrientationFirst(page_size, orientation) ==
    (IF Truthy(orientation) THEN <<orientation.s>> ELSE <<>>)
    \o (IF Truthy(page_size) THEN <<SizePrefix \o page_size.s>> ELSE <<>>)

\* css_rules
CssRules(page_size, orientation) ==
    (IF Truthy(page_size) THEN <<SizePrefix \o page_size.s>> ELSE <<>>)
    \o (IF Truthy(orientation) THEN <<orientation.s>> ELSE <<>>)

\* page_css
PageCss(page_size, orientation) ==
    StyleOpen \o StrJoin(RuleSep, CssRules(page_size, orientation)) \o StyleClose

\* `if page_size or orientation`
WantsStyle(page_size, orientation) == Truthy(page_size) \/ Truthy(orientation)

\* html_content.replace('<head>', f'<head>{page_css}')
InsertAfterHead(html, css) == StrReplace(html, HeadTag, HeadTag \o css)

\* The wrapper with the style block after the fragment's body.
WrapDocumentStyleLast(html, css) == WrapOpen \o WrapMid \o html \o css \o WrapClose

\* f'<html><head>{page_css}</head><body>{html_content}</body></html>'
WrapDocument(html, css) == WrapOpen \o css \o WrapMid \o html \o WrapClose

\* The Page-Style Injector: [exc, html].
InjectStyle(html, page_size, orientation) ==
    IF ~WantsStyle(page_size, orientation) THEN [exc |-> NoExc, html |-> html]
    ELSE IF html.kind # "str" THEN [exc |-> "TypeError", html |-> html]
    ELSE LET css == PageCss(page_size, orientation)
         IN  IF Contains(HeadTag, html.s)
             THEN [exc |-> NoExc, html |-> Str(InsertAfterHead(html.s, css))]
             ELSE [exc |-> NoExc, html |-> Str(WrapDocument(html.s, css))]

\* ------------------------------------------------------------ the handlers
\* One worker's request in flight: the handler's position and its locals.
\* pc is "idle" (no request), "received", "resolved" (input resolved or
\* validated), "styled", "rendered", "responded" (the PDF was sent) or
\* "failed" (an error response was sent).  renderCalls counts the calls of
\* HTML(string=...).write_pdf(), responses the responses sent, injected
\* says that the Page-Style Injector changed html_content, page_css is the
\* style block it built (None when it built none), pdf_bytes the engine's
\* output, written as the HTML it was rendered from, and exc the message of
\* the exception the try block caught (NoExc when it caught none).  path
\* lists the positions the request has been through.
NoRequest == Request("none", None, Bytes(<<>>), JsonScalar("null"), Missing, Missing)

IdleSlot ==
    [pc |-> "idle", req |-> NoRequest, html_content |-> None, source |-> "none",
     filename |-> None, page_size |-> None, orientation |-> None,
     page_css |-> None, injected |-> FALSE, renderCalls |-> 0,
     pdf_bytes |-> None, exc |-> NoExc, path |-> <<>>,
     resp |-> NoResponse, responses |-> 0]

\* The handler reaches a position.
Goto(slot, pc) == [slot EXCEPT !.pc = pc, !.path = Append(@, pc)]

\* The handler returns a response.
Answer(slot, pc, resp) ==
    [Goto(slot, pc) EXCEPT !.resp = resp, !.responses = @ + 1]

\* One except block for both handlers.
ErrorResponseShared(route, msg) == ConvertErrorResponse(msg)

\* The except block of the request's handler.
ErrorResponse(route, msg) ==
    IF route = "convert" THEN ConvertErrorResponse(msg) ELSE ParamsErrorResponse(msg)

\* An exception reaches the except block, which answers it.
Raise(slot, msg) ==
    [Answer(slot, "failed", ErrorResponse(slot.req.route, msg)) EXCEPT !.exc = msg]

\* The engine is handed the html_content of whichever request came first.
RenderInputShared(all, w) == all[1].html_content

\* The engine is handed the request's own html_content.
RenderInput(all, w) == all[w].html_content

\* One of the given requests arrives at an idle worker.
Receive(w, incoming) ==
    /\ slots[w].pc = "idle"
    /\ \E req \in incoming :
          slots' = [slots EXCEPT ![w] = Goto([IdleSlot EXCEPT !.req = req], "received")]

Home(w) ==
    /\ slots[w].pc = "received"
    /\ slots[w].req.route = "home"
    /\ slots' = [slots EXCEPT ![w] = Answer(@, "responded", HomeResponse)]

Health(w) ==
    /\ slots[w].pc = "received"
    /\ slots[w].req.route = "health"
    /\ slots' = [slots EXCEPT ![w] = Answer(@, "responded", HealthResponse)]

\* convert_html_to_pdf up to the log line before the rendering.
ConvertResolveStep(slot) ==
    LET r == ResolveInput(slot.req)
        s == [slot EXCEPT !.source = r.source, !.html_content = r.html]
    IN  IF r.exc # NoExc THEN Raise(s, r.exc)
        ELSE IF NoHtml(r.html) THEN Answer(s, "failed", NoHtmlResponse)
        ELSE IF LenRaises(r.html) THEN Raise(s, "TypeError")
        ELSE Goto(s, "resolved")

ConvertResolve(w) ==
    /\ slots[w].pc = "received"
    /\ slots[w].req.route = "convert"
    /\ slots' = [slots EXCEPT ![w] = ConvertResolveStep(@)]

\* convert_with_params up to orientation = data.get(...).
ParamsValidateStep(slot) ==
    LET v == ValidateParams(slot.req.json)
    IN  IF v.exc # NoExc THEN Raise(slot, v.exc)
        ELSE IF v.bad THEN Answer(slot, "failed", HtmlRequiredResponse)
        ELSE Goto([slot EXCEPT !.html_content = v.html,
                               !.source = "json", !.filename = v.filename,
                               !.page_size = v.page_size,
                               !.orientation = v.orientation], "resolved")

ParamsValidate(w) ==
    /\ slots[w].pc = "received"
    /\ slots[w].req.route = "params"
    /\ slots' = [slots EXCEPT ![w] = ParamsValidateStep(@)]

\* The handler's position right before `if page_size or orientation`.
ReadyToStyle(slot) == slot.pc = "resolved" /\ slot.req.route = "params"

\* convert_with_params: the page CSS block.
ParamsStyleStep(slot) ==
    LET r == InjectStyle(slot.html_content, slot.page_size, slot.orientation)
        s == IF WantsStyle(slot.page_size, slot.orientation)
             THEN [slot EXCEPT !.page_css = Str(PageCss(slot.page_size, slot.orientation))]
             ELSE slot
    IN  IF r.exc # NoExc THEN Raise(s, r.exc)
        ELSE Goto([s EXCEPT !.html_content = r.html,
                            !.injected = WantsStyle(slot.page_size, slot.orientation)],
                  "styled")

ParamsStyle(w) ==
    /\ ReadyToStyle(slots[w])
    /\ slots' = [slots EXCEPT ![w] = ParamsStyleStep(@)]

\* The handler's position right before HTML(string=html_content).write_pdf().
ReadyToRender(slot) ==
    \/ slot.pc = "resolved" /\ slot.req.route = "convert"
    \/ slot.pc = "styled" /\ slot.req.route = "params"

\* A failed rendering is tried again.
RenderStepRetry(slot, html, ok) ==
    LET s == [slot EXCEPT !.renderCalls = @ + 1]
    IN  IF ok THEN Goto([s EXCEPT !.pdf_bytes = html], "rendered") ELSE s

\* pdf_bytes = HTML(string=html_content).write_pdf(): the engine returns the
\* PDF or raises; it raises on anything that is not a string.
RenderStep(slot, html, ok) ==
    LET s == [slot EXCEPT !.renderCalls = @ + 1]
    IN  IF ok THEN Goto([s EXCEPT !.pdf_bytes = html], "rendered")
        ELSE Raise(s, "RenderError")

Render(w) ==
    /\ ReadyToRender(slots[w])
    /\ \E ok \in BOOLEAN :
          /\ ok => RenderInput(slots, w).kind = "str"
          /\ slots' = [slots EXCEPT ![w] = RenderStep(@, RenderInput(slots, w), ok)]

\* download_name: 'documento.pdf' in convert_html_to_pdf, filename in
\* convert_with_params.
DownloadName(slot) ==
    IF slot.req.route = "convert" THEN Str(DefaultFilename) ELSE slot.filename

\* return send_file(...)
RespondStep(slot) ==
    Answer(slot, "responded", PdfResponse(DownloadName(slot), slot.pdf_bytes))

Respond(w) ==
    /\ slots[w].pc = "rendered"
    /\ slots' = [slots EXCEPT ![w] = RespondStep(@)]

\* The response is written and the request's values are discarded.
Release(w) ==
    /\ slots[w].pc \in {"responded", "failed"}
    /\ slots' = [slots EXCEPT ![w] = IdleSlot]

Step(w) ==
    \/ Home(w)
    \/ Health(w)
    \/ ConvertResolve(w)
    \/ ParamsValidate(w)
    \/ ParamsStyle(w)
    \/ Render(w)
    \/ Respond(w)
    \/ Release(w)

\* --------------------------------------------------------------- the inputs
\* The concatenations of at most n of the given pieces.
RECURSIVE Concats(_, _)
Concats(pieces, n) ==
    IF n = 0 THEN {<<>>}
    ELSE LET shorter == Concats(pieces, n - 1)
         IN  shorter \cup {a \o p : a \in shorter, p \in pieces}

\* Pieces of text: <head>, the two halves that only form it together, and
\* a character beyond ASCII.
TextPieces == {HeadTag, <<60>>, <<104,101,97,100,62>>, <<233>>}
Texts == Concats(TextPieces, MaxTokens)

\* Pieces of a body: the bytes of <head> and the two bytes of U+00E9, which
\* are valid UTF-8 only as a pair in this order.
BytePieces == {HeadTag, <<195>>, <<169>>}
Bodies == Concats(BytePieces, MaxTokens)

ContentTypes ==
    { None,
      Str(TextHtml \o <<59,32,99,104,97,114,115,101,116,61,117,116,102,45,56>>),  \* text/html; charset=utf-8
      Str(ApplicationJson),
      Str(<<109,117,108,116,105,112,97,114,116,47,102,111,114,109,45,100,97,116,97>>),  \* multipart/form-data
      Str(<<84,69,88,84,47,72,84,77,76>>),  \* TEXT/HTML
      Str(TextHtml \o <<44,32>> \o ApplicationJson) }  \* text/html, application/json

HtmlObject(html, extra) == JsonBody("object", html, Missing, Missing, Missing, extra)

ConvertJsonBodies ==
    {JsonScalar(k) : k \in {"malformed", "null", "list", "listhtml"}}
    \cup {HtmlObject(Missing, e) : e \in BOOLEAN}
    \cup {HtmlObject(h, FALSE) : h \in {None, Num, Str(<<>>), Str(HeadTag), Str(<<233>>)}}

ConvertRequests ==
    { Request("convert", c, Bytes(d), j, f, h) :
        c \in ContentTypes, d \in Bodies, j \in ConvertJsonBodies,
        f \in {Missing} \cup {Bytes(b) : b \in Concats(BytePieces, 1)},
        h \in {Missing, Str(<<>>), Str(HeadTag)} }

ParamsJsonBodies ==
    {JsonScalar(k) : k \in {"malformed", "null", "list", "listhtml"}}
    \cup { JsonBody("object", h, f, p, o, e) :
             h \in {Missing, None, Num} \cup {Str(x) : x \in Texts},
             f \in {Missing, Str(<<97,46,112,100,102>>)},  \* a.pdf
             p \in {Missing, None, Str(<<>>), Str(<<76,101,116,116,101,114>>)},  \* Letter
             o \in {Missing, None, Str(<<>>),
                    Str(<<108,97,110,100,115,99,97,112,101>>)},  \* landscape
             e \in BOOLEAN }

ParamsRequests ==
    { Request("params", Str(ApplicationJson), Bytes(<<>>), j, Missing, Missing) :
        j \in ParamsJsonBodies }

GetRequests ==
    { Request(r, None, Bytes(<<>>), JsonScalar("null"), Missing, Missing) :
        r \in {"home", "health"} }

Requests == GetRequests \cup ConvertRequests \cup ParamsRequests

\* ------------------------------------------------------- the specifications
\* One request at a time, over all the requests above.
Init == slots = [w \in {1} |-> IdleSlot]

Next ==
    \E w \in {1} :
        \/ Receive(w, Requests)
        \/ Step(w)

Spec == Init /\ [][Next]_vars

\* NumWorkers requests at a time, over a few requests of every route.
Workers == 1..NumWorkers

ConcJsonBodies ==
    { JsonScalar("list"),
      HtmlObject(Missing, FALSE),
      HtmlObject(Str(HeadTag \o <<233>>), FALSE),
      JsonBody("object", Str(<<60>>), Str(<<97,46,112,100,102>>),
               Str(<<76,101,116,116,101,114>>), Missing, FALSE) }

ConcRequests ==
    GetRequests
    \cup { Request("convert", Str(TextHtml), Bytes(d), JsonScalar("null"), Missing, Missing) :
             d \in {HeadTag, <<195>>} }
    \cup { Request("convert", Str(ApplicationJson), Bytes(<<>>), j, Missing, Missing) :
             j \in ConcJsonBodies }
    \cup { Request("params", Str(ApplicationJson), Bytes(<<>>), j, Missing, Missing) :
             j \in ConcJsonBodies }

InitConc == slots = [w \in Workers |-> IdleSlot]

NextConc ==
    \E w \in Workers :
        \/ Receive(w, ConcRequests)
        \/ Step(w)

SpecConc == InitConc /\ [][NextConc]_vars

\* ================================================================ the claims
\* The requests in flight that have left the state Received.
Handled(route) ==
    {w \in DOMAIN slots : slots[w].req.route = route
                          /\ slots[w].pc \notin {"idle", "received"}}

\* The first branch of the precedence list that matches a request.
C1_FirstMatch(req) ==
    IF Truthy(req.ctype) /\ Contains(TextHtml, req.ctype.s) THEN "text/html"
    ELSE IF Truthy(req.ctype) /\ Contains(ApplicationJson, req.ctype.s) THEN "json"
    ELSE IF req.file.kind # "missing" THEN "file"
    ELSE IF req.form.kind # "missing" THEN "form-data"
    ELSE "none"

\* The HTML that branch supplies; None when it supplies none.
C1_Supplied(req) ==
    LET b == C1_FirstMatch(req)
        body == Utf8Decode(req.data.s)
        upload == Utf8Decode(req.file.s)
    IN  IF b = "text/html" THEN (IF body.ok THEN Str(body.s) ELSE None)
        ELSE IF b = "json"
        THEN (IF req.json.kind = "object" /\ req.json.html.kind # "missing"
              THEN req.json.html ELSE None)
        ELSE IF b = "file" THEN (IF upload.ok THEN Str(upload.s) ELSE None)
        ELSE IF b = "form-data" THEN req.form
        ELSE None

\* C1: in POST /convert the first matching branch of the precedence
\* text/html, application/json, file, form field, none is the one that runs;
\* the HTML that goes on to the renderer is the one that branch supplies, and
\* when that branch supplies an empty or absent string the request fails
\* without a later branch supplying one.
C1_Precedence ==
    \A w \in Handled("convert") :
        LET s == slots[w]
        IN  /\ s.source = C1_FirstMatch(s.req)
            /\ (s.pc # "failed" \/ s.resp.status = 400) =>
                   s.html_content = C1_Supplied(s.req)
            /\ ~Truthy(C1_Supplied(s.req)) => s.pc = "failed" /\ s.renderCalls = 0

\* A text/html request with an empty body, a non-empty file and a non-empty
\* form field was answered without HTML.
C1_Witness ==
    \E w \in Handled("convert") :
        LET s == slots[w]
        IN  /\ C1_FirstMatch(s.req) = "text/html"
            /\ s.req.data.s = <<>>
            /\ s.req.file.kind = "bytes" /\ s.req.file.s = HeadTag
            /\ s.req.form = Str(HeadTag)
            /\ s.pc = "failed" /\ s.resp.status = 400

\* The requests of /convert for which the resolver finds no HTML: no branch
\* matches, or the matching branch yields an empty string or None.
C2_NoHtmlFound(req) ==
    LET b == C1_FirstMatch(req)
    IN  \/ b = "none"
        \/ b = "text/html" /\ req.data.s = <<>>
        \/ b = "json" /\ req.json.kind = "object"
                      /\ req.json.html \in {Missing, None, Str(<<>>)}
        \/ b = "file" /\ req.file.s = <<>>
        \/ b = "form-data" /\ req.form = Str(<<>>)

C2_Answer(s, items) ==
    /\ s.pc = "failed"
    /\ s.resp.status = 400
    /\ s.resp.keys = {"error", "aceita"}
    /\ s.resp.error = "Nenhum HTML fornecido"
    /\ Len(s.resp.aceita) = items
    /\ s.renderCalls = 0

\* C2 as amended: every POST /convert request for which the resolver finds
\* no HTML is answered 400 with error "Nenhum HTML fornecido" and an `aceita`
\* list of three items.
C2_NoHtmlIs400 ==
    \A w \in Handled("convert") :
        C2_NoHtmlFound(slots[w].req) => C2_Answer(slots[w], 3)

\* C2 as stated: the `aceita` list has four items.
C2_FourItems ==
    \A w \in Handled("convert") :
        C2_NoHtmlFound(slots[w].req) => C2_Answer(slots[w], 4)

\* A request whose JSON object has an empty `html` was answered 400.
C2_Witness ==
    \E w \in Handled("convert") :
        /\ C1_FirstMatch(slots[w].req) = "json"
        /\ slots[w].req.json.html = Str(<<>>)
        /\ C2_NoHtmlFound(slots[w].req)
        /\ slots[w].resp.status = 400

\* The body of a /convert-with-params request carries a non-empty string
\* `html`.
C3_HasHtml(json) ==
    json.kind = "object" /\ json.html.kind = "str" /\ json.html.s # <<>>

\* C3: POST /convert-with-params answers 400 with the error "Campo "html" é
\* obrigatório" whenever the JSON body is absent, has no `html` or has an
\* `html` that is not a non-empty string, and then neither the injector nor
\* the engine runs.
C3_HtmlRequired ==
    \A w \in Handled("params") :
        LET s == slots[w]
        IN  (s.req.json.kind # "malformed" /\ ~C3_HasHtml(s.req.json)) =>
                /\ s.pc = "failed"
                /\ s.resp.status = 400
                /\ s.resp.keys = {"error"}
                /\ s.resp.error = "Campo \"html\" é obrigatório"
                /\ s.page_css = None /\ ~s.injected /\ s.renderCalls = 0

\* The place of the first <head> in a text that has one.
FirstHead(h) ==
    CHOOSE i \in 1..(Len(h) - Len(HeadTag) + 1) :
        /\ SubSeq(h, i, i + Len(HeadTag) - 1) = HeadTag
        /\ \A j \in 1..(i - 1) : SubSeq(h, j, j + Len(HeadTag) - 1) # HeadTag

\* The requests whose HTML went through the Page-Style Injector.
Injected == {w \in Handled("params") : slots[w].injected}

\* C4: for an HTML string with <head> the injector's output is the input
\* with one style block right after the first <head>, and nothing else
\* changed.
C4_OneBlockAfterFirstHead ==
    \A w \in Injected :
        LET s == slots[w]
            h == s.req.json.html.s
            at == FirstHead(h) + Len(HeadTag) - 1
        IN  Contains(HeadTag, h) =>
                s.html_content.s =
                    SubSeq(h, 1, at) \o s.page_css.s \o SubSeq(h, at + 1, Len(h))

\* C5: for an HTML fragment without <head> the injector's output is
\* <html><head>{style}</head><body>{fragment}</body></html>.
C5_FragmentWrapped ==
    \A w \in Injected :
        LET s == slots[w]
            h == s.req.json.html.s
        IN  ~Contains(HeadTag, h) =>
                s.html_content.s =
                    <<60,104,116,109,108,62>> \o HeadTag       \* <html><head>
                    \o s.page_css.s
                    \o <<60,47,104,101,97,100,62>>              \* </head>
                    \o <<60,98,111,100,121,62>>                 \* <body>
                    \o h
                    \o <<60,47,98,111,100,121,62>>              \* </body>
                    \o <<60,47,104,116,109,108,62>>             \* </html>

\* A fragment that holds the two halves of <head> the wrong way round was
\* wrapped.
C5_Witness ==
    \E w \in Injected :
        /\ slots[w].req.json.html.s = <<104,101,97,100,62,60>>      \* head><
        /\ slots[w].pc = "styled"
        /\ Len(slots[w].html_content.s) > Len(slots[w].req.json.html.s)

\* The requests of /convert whose content type is classified as JSON.
JsonConverts ==
    {w \in Handled("convert") : C1_FirstMatch(slots[w].req) = "json"}

\* C6: a JSON request to /convert with a string `html` resolves to that
\* string, and one whose JSON value has no `html` is answered 400
\* "Nenhum HTML fornecido".
C6_JsonResolution ==
    \A w \in JsonConverts :
        LET s == slots[w]
            j == s.req.json
        IN  /\ (j.kind = "object" /\ j.html.kind = "str") => s.html_content = j.html
            /\ (j.kind \in {"null", "list", "listhtml"}
                \/ (j.kind = "object" /\ j.html.kind = "missing")) =>
                   /\ s.resp.status = 400
                   /\ s.resp.error = "Nenhum HTML fornecido"

\* The requests whose handler caught an exception.
Caught(route) == {w \in Handled(route) : slots[w].exc # NoExc}

\* C7 as amended: every exception caught on /convert is answered 500
\* {"error": "Erro ao converter PDF", "details": <message>}, and every
\* exception caught on /convert-with-params 500 {"error": <message>}.
C7_ExceptionsAre500 ==
    /\ \A w \in Caught("convert") :
          /\ slots[w].pc = "failed"
          /\ slots[w].resp.status = 500
          /\ slots[w].resp.keys = {"error", "details"}
          /\ slots[w].resp.error = "Erro ao converter PDF"
          /\ slots[w].resp.details = slots[w].exc
    /\ \A w \in Caught("params") :
          /\ slots[w].pc = "failed"
          /\ slots[w].resp.status = 500
          /\ slots[w].resp.keys = {"error"}
          /\ slots[w].resp.error = slots[w].exc

\* C7 as stated: both routes answer an exception with the same body,
\* {"error": "Erro ao converter PDF", "details": <message>}.
C7_SameShape ==
    \A w \in Caught("convert") \cup Caught("params") :
        /\ slots[w].resp.status = 500
        /\ slots[w].resp.keys = {"error", "details"}
        /\ slots[w].resp.error = "Erro ao converter PDF"
        /\ slots[w].resp.details = slots[w].exc

\* The engine failed on a /convert-with-params request, which was answered
\* 500.
C7_Witness ==
    \E w \in Caught("params") :
        /\ slots[w].exc = "RenderError"
        /\ slots[w].renderCalls = 1
        /\ slots[w].resp.status = 500

\* A parameter as the handler reads it: the default when the key is omitted.
C8_Param(v, default) == IF v = Missing THEN Str(default) ELSE v

\* A parameter is present: it is a non-empty string.
C8_Present(v) == v.kind = "str" /\ v.s # <<>>

\* C8: the style block is <style>@page { C; margin: 0; }</style>, C being
\* `size: <page_size>` and then `<orientation>`, each only if present, joined
\* by "; "; with both parameters omitted it is
\* <style>@page { size: A4; portrait; margin: 0; }</style>; and a block is
\* built whenever one of the two is present.
C8_StyleBlock ==
    \A w \in Handled("params") :
        LET s == slots[w]
            p == C8_Param(s.req.json.page_size, <<65,52>>)                          \* A4
            o == C8_Param(s.req.json.orientation, <<112,111,114,116,114,97,105,116>>) \* portrait
            open == <<60,115,116,121,108,101,62,64,112,97,103,101,32,123,32>>       \* "<style>@page { "
            size == <<115,105,122,101,58,32>>                                        \* "size: "
            sep == <<59,32>>                                                         \* "; "
            close == <<109,97,114,103,105,110,58,32,48,59,32,125,
                       60,47,115,116,121,108,101,62>>                                \* "margin: 0; }</style>"
        IN  s.pc \in {"styled", "rendered", "responded"} =>
              /\ (C8_Present(p) /\ C8_Present(o)) =>
                     s.page_css = Str(open \o size \o p.s \o sep \o o.s \o sep \o close)
              /\ (C8_Present(p) /\ ~C8_Present(o)) =>
                     s.page_css = Str(open \o size \o p.s \o sep \o close)
              /\ (~C8_Present(p) /\ C8_Present(o)) =>
                     s.page_css = Str(open \o o.s \o sep \o close)
              /\ (s.req.json.page_size = Missing /\ s.req.json.orientation = Missing) =>
                     s.page_css = Str(
                       <<60,115,116,121,108,101,62,64,112,97,103,101,32,123,32,
                         115,105,122,101,58,32,65,52,59,32,
                         112,111,114,116,114,97,105,116,59,32,
                         109,97,114,103,105,110,58,32,48,59,32,125,
                         60,47,115,116,121,108,101,62>>)
              /\ (C8_Present(p) \/ C8_Present(o)) <=> s.injected

\* A request that gives the page size and omits the orientation was styled.
C8_Witness ==
    \E w \in Injected :
        /\ slots[w].req.json.page_size = Str(<<76,101,116,116,101,114>>)   \* Letter
        /\ slots[w].req.json.orientation = Missing
        /\ slots[w].pc = "styled"

\* The conversion requests in flight.
Conversions ==
    {w \in DOMAIN slots : slots[w].req.route \in {"convert", "params"}}

C9_Done == {"responded", "failed"}

\* The positions of a request that gets its PDF.
C9_Course(route) ==
    IF route = "params"
    THEN <<"received", "resolved", "styled", "rendered", "responded">>
    ELSE <<"received", "resolved", "rendered", "responded">>

\* The position from which the engine is called.
C9_BeforeRender(route) == IF route = "params" THEN "styled" ELSE "resolved"

\* C9: every conversion request follows Received -> Resolved -> (Styled,
\* only on /convert-with-params) -> Rendered -> Responded or goes to Failed
\* from one of these; the engine is called at most once, only from the
\* position after resolution (and styling), never on a request answered
\* 400; a request that is done has exactly one response, of status 200, 400
\* or 500, and one that is not done has none yet and a step to take.
C9_StateMachine ==
    \A w \in Conversions :
        LET s == slots[w]
            course == C9_Course(s.req.route)
            n == Len(s.path)
        IN  /\ n >= 1 /\ s.path[n] = s.pc
            /\ \/ n <= Len(course) /\ s.path = SubSeq(course, 1, n)
               \/ /\ n >= 2 /\ n <= Len(course)
                  /\ s.path = Append(SubSeq(course, 1, n - 1), "failed")
            /\ s.renderCalls \in {0, 1}
            /\ s.renderCalls = 1 <=>
                   \E i \in 1..(n - 1) :
                       /\ s.path[i] = C9_BeforeRender(s.req.route)
                       /\ \/ s.path[i + 1] = "rendered"
                          \/ s.path[i + 1] = "failed" /\ s.exc = "RenderError"
            /\ s.resp.status = 400 => s.renderCalls = 0
            /\ s.pc = "responded" => s.resp.status = 200
            /\ s.pc = "failed" => s.resp.status \in {400, 500}
            /\ s.responses = (IF s.pc \in C9_Done THEN 1 ELSE 0)
            /\ s.pc \notin C9_Done =>
                   \/ s.pc = "received"
                   \/ ReadyToStyle(s)
                   \/ ReadyToRender(s)
                   \/ s.pc = "rendered"

\* A /convert-with-params request went through Styled and Rendered and was
\* answered with the PDF.
C9_Witness ==
    \E w \in Conversions :
        /\ slots[w].req.route = "params"
        /\ slots[w].injected
        /\ slots[w].pc = "responded"
        /\ slots[w].renderCalls = 1
        /\ slots[w].responses = 1

\* The handler run on one request from start to end with nothing else in
\* flight, the engine succeeding or not as given.
C10_Alone(req, engineOk) ==
    LET s0 == Goto([IdleSlot EXCEPT !.req = req], "received")
        s1 == IF req.route = "home" THEN Answer(s0, "responded", HomeResponse)
              ELSE IF req.route = "health" THEN Answer(s0, "responded", HealthResponse)
              ELSE IF req.route = "convert" THEN ConvertResolveStep(s0)
              ELSE ParamsValidateStep(s0)
        s2 == IF s1.pc = "resolved" /\ req.route = "params" THEN ParamsStyleStep(s1) ELSE s1
        s3 == IF ReadyToRender(s2) THEN RenderStep(s2, s2.html_content, engineOk) ELSE s2
    IN  IF s3.pc = "rendered" THEN RespondStep(s3) ELSE s3

\* C10: whatever else is in flight, a finished request has the response,
\* the HTML handed to the engine and the attachment name it has when it is
\* handled alone, and GET /health is answered 200 {"status": "healthy"}.
C10_Independent ==
    \A w \in DOMAIN slots :
        LET s == slots[w]
        IN  /\ s.pc \in C9_Done => s = C10_Alone(s.req, s.exc # "RenderError")
            /\ (s.req.route = "health" /\ s.pc # "received") =>
                   /\ s.pc = "responded"
                   /\ s.resp.status = 200
                   /\ s.resp.keys = {"status:healthy"}

\* Two requests are finished at the same moment: the engine failed on one,
\* and the other one, with another HTML, got its PDF.
C10_Witness ==
    \E v, w \in DOMAIN slots :
        /\ v # w
        /\ slots[v].pc = "failed" /\ slots[v].exc = "RenderError"
        /\ slots[w].pc = "responded" /\ slots[w].resp.status = 200
        /\ slots[w].resp.pdfOf.kind = "str"
        /\ slots[v].html_content # slots[w].html_content

====
